---- MODULE Spec2Model ----
(***************************************************************************)
(* Session lifecycle of the auth backend: AuthController's register,       *)
(* login, refresh-tokens and logout handlers running against the shared    *)
(* user and refresh-session stores.  A handler is a sequence of steps, one *)
(* per store round trip (every `await` on a store call is a point where    *)
(* another request may run).                                               *)
(***************************************************************************)
EXTENDS Integers, FiniteSets, Sequences, TLC

VARIABLES
    users,      \* user table: set of [id, login, password]
    sessions,   \* refresh-session table: set of [id, user, fingerprint, token, expiresAt]
    nextId,     \* primary key of the next refresh session row
    now,        \* Date.now()
    issued,     \* how many values v4() has returned so far
    pc,         \* per request slot: the step the handler is at
    req,        \* per request slot: the request's inputs
    loc,        \* per request slot: the handler's locals
    out,        \* what the step just taken handed to the caller (NoOut: nothing)
    started,    \* how many requests have come in
    consumed,   \* history: tokens a successful refresh has redeemed
    loggedOut,  \* history: tokens whose session a logout has removed
    origin      \* history: the operation that issued each token ("none": not issued)

vars == <<users, sessions, nextId, now, issued, pc, req, loc, out, started, consumed, loggedOut, origin>>

----------------------------------------------------------------------------
(* Bounds and input domains *)

MaxRequests == 3
MaxTime == 2
RefreshTokenExpiresIn == 1

Procs == {"r1", "r2"}
Logins == {"alice", "bob"}
Passwords == {"pw1", "pw2"}
\* passwords are per user and never compared across users: one value at registration
RegisterPasswords == {"pw1"}
Fingerprints == {"dev1", "dev2"}
\* every request draws at most one token
Tokens == 1..MaxRequests
\* the refresh-token cookie of a request: a token value, or NoCookie when absent
NoCookie == 0
Cookies == Tokens \cup {NoCookie}

NoUser == [id |-> 0, login |-> "", password |-> ""]
NoSession == [id |-> 0, user |-> 0, fingerprint |-> "", token |-> 0, expiresAt |-> 0]
NoReq == [op |-> "", login |-> "", password |-> "", fingerprint |-> "", cookie |-> NoCookie]
\* removed: the tokens of the rows the handler's delete or remove took out
NoLoc == [user |-> NoUser, session |-> NoSession, removed |-> {}]
\* an access token as a request presents it: what verifying it comes to, and
\* the userId of its payload
AccessStates == {"valid", "expired", "badsignature", "malformed"}
UserIds == 1..(Cardinality(Logins) + 1)
AccessTokens == {t \in [state : AccessStates, userId : UserIds] : t.state = "valid" \/ t.userId = 1}
NoAccess == [state |-> "none", userId |-> 0]

NoOut == [kind |-> "none", ok |-> FALSE, req |-> NoReq, status |-> 0, message |-> "",
          cookies |-> "none", accessToken |-> 0, refreshToken |-> 0, user |-> 0,
          removed |-> {}, sent |-> FALSE, access |-> NoAccess]

----------------------------------------------------------------------------
(* Collaborators *)

\* bcrypt.hash / bcrypt.compare
Hash(password) == <<"bcrypt", password>>
Compare(password, hashed) == hashed = Hash(password)

\* userService.findOne({login})
UserFindOne(login) == {u \in users : u.login = login}

\* userService.create(...)
UserCreate(login, hashed) == [id |-> Cardinality(users) + 1, login |-> login, password |-> hashed]

\* refreshSessionService.remove(entity): by primary key
SessionRemove(S, session) == {s \in S : s.id # session.id}

\* jwtService.signAsync({userId})
SignAccessToken(user) == user.id

\* userService.findOne({where: {id}}): the user with this id, or none
UserFindById(id) ==
    IF \E u \in users : u.id = id THEN CHOOSE u \in users : u.id = id ELSE NoUser

\* jwtService.verifyAsync(token): resolves for a token that is well formed,
\* signed with the secret and not expired, and throws for any other
VerifyAsync(token) == token.state = "valid"

\* mutant: the exception of verifyAsync leaves the function
FindUserByAccessTokenUncaught(token) ==
    IF VerifyAsync(token)
    THEN [raised |-> FALSE, user |-> UserFindById(token.userId)]
    ELSE [raised |-> TRUE, user |-> NoUser]

\* AuthService.findUserByAccessToken: the catch turns the exception into null
FindUserByAccessToken(token) ==
    IF VerifyAsync(token)
    THEN [raised |-> FALSE, user |-> UserFindById(token.userId)]
    ELSE [raised |-> FALSE, user |-> NoUser]

\* mutant: the guard lets every request in
CanActivateAlways(user) == TRUE

\* IsAuthorizedGuard.canActivate: !!req.user
CanActivate(user) == user # NoUser

\* the guard's refusal, as the framework reports it
Forbidden == [status |-> 403, message |-> "Forbidden resource"]

\* mutant: the store takes a token it already holds
CreateNeverFails(S, token) == FALSE

\* refreshSessionService.create(row): fails (DuplicateToken) when a stored
\* session already carries the row's token
CreateFails(S, token) == \E s \in S : s.token = token

----------------------------------------------------------------------------
(* Pieces of the handlers *)

\* login, line 57
LoginError == [status |-> 400, message |-> "Invalid credentials."]
NoError == [status |-> 0, message |-> ""]

\* mutant: an unknown login is told apart from a wrong password
LoginFailureTelling(user, password) ==
    IF user = NoUser THEN [status |-> 400, message |-> "User not found."]
    ELSE IF ~Compare(password, user.password) THEN LoginError
    ELSE NoError

\* login, lines 59-63: the error thrown for this user lookup and password, if any
LoginFailure(user, password) ==
    IF user = NoUser THEN LoginError
    ELSE IF ~Compare(password, user.password) THEN LoginError
    ELSE NoError

\* refreshTokens, line 84
RefreshError == [status |-> 400, message |-> "Invalid refresh token"]

\* an exception that is no HttpException, as the framework reports it
UnhandledError == [status |-> 500, message |-> "Internal server error"]

\* register, line 32
RegisterError == [status |-> 400, message |-> "User with this login has been already registered."]

\* mutant: the login deletes nothing
LoginDeleteNothing(s, fingerprint) == FALSE

\* mutant: the login deletes the sessions of the other fingerprints
LoginDeleteOthers(s, fingerprint) == s.fingerprint # fingerprint

\* login, line 65: refreshSessionService.delete({fingerprint})
LoginDeleteCriteria(s, fingerprint) == s.fingerprint = fingerprint

\* mutant: the lookup ignores the fingerprint
RefreshFindByToken(s, fingerprint, token) == s.token = token

\* refreshTokens, line 90: refreshSessionService.findOne({fingerprint, token})
RefreshFindCriteria(s, fingerprint, token) == s.fingerprint = fingerprint /\ s.token = token

\* mutant: a session is still good at its expiry
IsExpiredLate(time, expiresAt) == time - expiresAt > 0

\* refreshTokens, line 94
IsExpired(time, expiresAt) == time - expiresAt >= 0

\* mutant: the session that was found is not removed
RefreshKeep(S, session) == S

\* refreshTokens, line 98: refreshSessionService.remove(session)
RefreshRemove(S, session) == SessionRemove(S, session)

\* mutant: the logout deletes nothing
LogoutDeleteNothing(s, token) == FALSE

\* mutant: the logout deletes every session
LogoutDeleteAll(s, token) == TRUE

\* logout, line 129: refreshSessionService.delete({token})
LogoutDeleteCriteria(s, token) == s.token = token

\* getJWTs, line 154: new Date(Date.now() + refreshTokenExpiresIn)
ExpiresAt(time) == time + RefreshTokenExpiresIn

\* the inputs a response is recorded with: the password is left out
Shown(r) == [r EXCEPT !.password = ""]

\* v4(): a value it has not returned before (which one is immaterial)
V4 == issued + 1

\* a thrown exception, as the caller sees it
Failure(kind, r, error) ==
    [NoOut EXCEPT !.kind = kind, !.req = r, !.status = error.status,
                  !.message = error.message, !.sent = TRUE]

\* a request comes in; MaxRequests of them do
Arrive == started < MaxRequests /\ started' = started + 1

\* a handler that is done gives up its slot
Release(p) ==
    /\ pc' = [pc EXCEPT ![p] = "idle"]
    /\ req' = [req EXCEPT ![p] = NoReq]
    /\ loc' = [loc EXCEPT ![p] = NoLoc]

----------------------------------------------------------------------------
Init ==
    /\ users = {}
    /\ sessions = {}
    /\ nextId = 1
    /\ now = 0
    /\ issued = 0
    /\ pc = [p \in Procs |-> "idle"]
    /\ req = [p \in Procs |-> NoReq]
    /\ loc = [p \in Procs |-> NoLoc]
    /\ out = NoOut
    /\ started = 0
    /\ consumed = {}
    /\ loggedOut = {}
    /\ origin = [t \in Tokens |-> "none"]

\* time passes
Tick ==
    /\ now < MaxTime
    /\ now' = now + 1
    /\ out' = NoOut
    /\ UNCHANGED <<users, sessions, nextId, issued, pc, req, loc, started, consumed, loggedOut, origin>>

\* mutant: register does not look for a user with the login
RegisterFindOneUnchecked(p) ==
    /\ pc[p] = "idle"
    /\ \E login \in Logins, password \in RegisterPasswords, fingerprint \in Fingerprints :
        /\ pc' = [pc EXCEPT ![p] = "register_create"]
        /\ req' = [req EXCEPT ![p] = [NoReq EXCEPT !.op = "register", !.login = login,
                                        !.password = password, !.fingerprint = fingerprint]]
        /\ out' = NoOut
        /\ UNCHANGED loc
    /\ Arrive
    /\ UNCHANGED <<users, sessions, nextId, now, issued, consumed, loggedOut, origin>>

\* register, lines 30-32: look the login up; throw when it is taken
RegisterFindOne(p) ==
    /\ pc[p] = "idle"
    /\ \E login \in Logins, password \in RegisterPasswords, fingerprint \in Fingerprints :
        LET r == [NoReq EXCEPT !.op = "register", !.login = login,
                               !.password = password, !.fingerprint = fingerprint]
        IN  IF UserFindOne(login) # {}
            THEN /\ out' = Failure("register", Shown(r), RegisterError)
                 /\ UNCHANGED <<pc, req, loc>>
            ELSE /\ pc' = [pc EXCEPT ![p] = "register_create"]
                 /\ req' = [req EXCEPT ![p] = r]
                 /\ out' = NoOut
                 /\ UNCHANGED loc
    /\ Arrive
    /\ UNCHANGED <<users, sessions, nextId, now, issued, consumed, loggedOut, origin>>

\* register, lines 34-37: hash the password and store the user
RegisterCreate(p) ==
    /\ pc[p] = "register_create"
    /\ LET user == UserCreate(req[p].login, Hash(req[p].password))
       IN  /\ users' = users \cup {user}
           /\ loc' = [loc EXCEPT ![p].user = user]
    /\ pc' = [pc EXCEPT ![p] = "jwts"]
    /\ out' = NoOut
    /\ UNCHANGED <<sessions, nextId, now, issued, req, started, consumed, loggedOut, origin>>

\* login, lines 55-63: look the user up and compare the password
LoginFindOne(p) ==
    /\ pc[p] = "idle"
    /\ \E login \in Logins, password \in Passwords, fingerprint \in Fingerprints :
        LET r == [NoReq EXCEPT !.op = "login", !.login = login,
                               !.password = password, !.fingerprint = fingerprint]
            found == IF UserFindOne(login) = {} THEN {NoUser} ELSE UserFindOne(login)
        IN  \E user \in found :
              IF LoginFailure(user, password) # NoError
              THEN /\ out' = Failure("login", Shown(r), LoginFailure(user, password))
                   /\ UNCHANGED <<pc, req, loc>>
              ELSE /\ pc' = [pc EXCEPT ![p] = "login_delete"]
                   /\ req' = [req EXCEPT ![p] = r]
                   /\ loc' = [loc EXCEPT ![p].user = user]
                   /\ out' = NoOut
    /\ Arrive
    /\ UNCHANGED <<users, sessions, nextId, now, issued, consumed, loggedOut, origin>>

\* login, line 65: delete the sessions of this fingerprint
LoginDelete(p) ==
    /\ pc[p] = "login_delete"
    /\ LET gone == {s \in sessions : LoginDeleteCriteria(s, req[p].fingerprint)}
       IN  /\ sessions' = sessions \ gone
           /\ loc' = [loc EXCEPT ![p].removed = {s.token : s \in gone}]
    /\ pc' = [pc EXCEPT ![p] = "jwts"]
    /\ out' = NoOut
    /\ UNCHANGED <<users, nextId, now, issued, req, started, consumed, loggedOut, origin>>

\* refreshTokens, lines 84-92: read the cookie and look the session up
RefreshFindOne(p) ==
    /\ pc[p] = "idle"
    /\ \E cookie \in Cookies, fingerprint \in Fingerprints :
        LET r == [NoReq EXCEPT !.op = "refresh", !.cookie = cookie, !.fingerprint = fingerprint]
            found == {s \in sessions : RefreshFindCriteria(s, fingerprint, cookie)}
        IN  IF cookie = NoCookie \/ found = {}
            THEN /\ out' = Failure("refresh", r, RefreshError)
                 /\ UNCHANGED <<pc, req, loc>>
            ELSE \E session \in found :
                 /\ pc' = [pc EXCEPT ![p] = "refresh_check"]
                 /\ req' = [req EXCEPT ![p] = r]
                 /\ loc' = [loc EXCEPT ![p].session = session,
                                       ![p].user = CHOOSE u \in users : u.id = session.user]
                 /\ out' = NoOut
    /\ Arrive
    /\ UNCHANGED <<users, sessions, nextId, now, issued, consumed, loggedOut, origin>>

\* mutant: an expired session is deleted when the check finds it
RefreshCheckLazyDelete(p) ==
    /\ pc[p] = "refresh_check"
    /\ IF IsExpired(now, loc[p].session.expiresAt)
       THEN /\ out' = Failure("refresh", req[p], RefreshError)
            /\ sessions' = SessionRemove(sessions, loc[p].session)
            /\ Release(p)
       ELSE /\ pc' = [pc EXCEPT ![p] = "refresh_remove"]
            /\ out' = NoOut
            /\ UNCHANGED <<sessions, req, loc>>
    /\ UNCHANGED <<users, nextId, now, issued, started, consumed, loggedOut, origin>>

\* refreshTokens, lines 94-96: throw when the session has expired
RefreshCheck(p) ==
    /\ pc[p] = "refresh_check"
    /\ IF IsExpired(now, loc[p].session.expiresAt)
       THEN /\ out' = Failure("refresh", req[p], RefreshError)
            /\ Release(p)
       ELSE /\ pc' = [pc EXCEPT ![p] = "refresh_remove"]
            /\ out' = NoOut
            /\ UNCHANGED <<req, loc>>
    /\ UNCHANGED <<users, sessions, nextId, now, issued, started, consumed, loggedOut, origin>>

\* refreshTokens, line 98: remove the session that was found
RefreshRemoveSession(p) ==
    /\ pc[p] = "refresh_remove"
    /\ sessions' = RefreshRemove(sessions, loc[p].session)
    /\ loc' = [loc EXCEPT ![p].removed = {s.token : s \in sessions \ sessions'}]
    /\ pc' = [pc EXCEPT ![p] = "jwts"]
    /\ out' = NoOut
    /\ UNCHANGED <<users, nextId, now, issued, req, started, consumed, loggedOut, origin>>

\* mutant: the tokens are handed out without the session being stored
GetJWTsUnsaved(p) ==
    /\ pc[p] = "jwts"
    /\ V4 \in Tokens
    /\ issued' = issued + 1
    /\ UNCHANGED <<sessions, nextId>>
    /\ out' = [NoOut EXCEPT !.kind = req[p].op, !.ok = TRUE, !.req = Shown(req[p]),
                            !.status = CASE req[p].op = "register" -> 201
                                         [] req[p].op = "login" -> 200
                                         [] OTHER -> 204,
                            !.cookies = "set",
                            !.accessToken = SignAccessToken(loc[p].user),
                            !.refreshToken = V4,
                            !.user = loc[p].user.id,
                            !.removed = loc[p].removed,
                            !.sent = TRUE]
    /\ consumed' = IF req[p].op = "refresh" THEN consumed \cup {req[p].cookie} ELSE consumed
    /\ origin' = [origin EXCEPT ![V4] = req[p].op]
    /\ Release(p)
    /\ UNCHANGED <<users, now, started, loggedOut>>

\* getJWTs, lines 148-160, and the handler's tail: sign the access token, store
\* a session with a new token and its expiry, set the cookies and answer.  The
\* expiry is computed in the statement that stores the session, so no time
\* passes between the two.
GetJWTs(p) ==
    /\ pc[p] = "jwts"
    /\ V4 \in Tokens
    /\ issued' = issued + 1
    /\ sessions' = sessions \cup
          {[id |-> nextId, user |-> loc[p].user.id, fingerprint |-> req[p].fingerprint,
            token |-> V4, expiresAt |-> ExpiresAt(now)]}
    /\ nextId' = nextId + 1
    /\ out' = [NoOut EXCEPT !.kind = req[p].op, !.ok = TRUE, !.req = Shown(req[p]),
                            !.status = CASE req[p].op = "register" -> 201
                                         [] req[p].op = "login" -> 200
                                         [] OTHER -> 204,
                            !.cookies = "set",
                            !.accessToken = SignAccessToken(loc[p].user),
                            !.refreshToken = V4,
                            !.user = loc[p].user.id,
                            !.removed = loc[p].removed,
                            !.sent = TRUE]
    /\ consumed' = IF req[p].op = "refresh" THEN consumed \cup {req[p].cookie} ELSE consumed
    /\ origin' = [origin EXCEPT ![V4] = req[p].op]
    /\ Release(p)
    /\ UNCHANGED <<users, now, started, loggedOut>>

\* getJWTs, lines 148-160, when v4() returns the token of a stored session:
\* create is called once, and its failure is neither caught nor retried, so it
\* leaves getJWTs and the handler as an unhandled exception
GetJWTsCollide(p) ==
    /\ pc[p] = "jwts"
    /\ \E token \in {s.token : s \in sessions} :
        IF CreateFails(sessions, token)
        THEN /\ out' = [Failure(req[p].op, Shown(req[p]), UnhandledError)
                            EXCEPT !.removed = loc[p].removed]
             /\ UNCHANGED <<sessions, nextId, consumed>>
        ELSE /\ sessions' = sessions \cup
                    {[id |-> nextId, user |-> loc[p].user.id,
                      fingerprint |-> req[p].fingerprint,
                      token |-> token, expiresAt |-> ExpiresAt(now)]}
             /\ nextId' = nextId + 1
             /\ out' = [NoOut EXCEPT !.kind = req[p].op, !.ok = TRUE, !.req = Shown(req[p]),
                                     !.status = CASE req[p].op = "register" -> 201
                                                  [] req[p].op = "login" -> 200
                                                  [] OTHER -> 204,
                                     !.cookies = "set",
                                     !.accessToken = SignAccessToken(loc[p].user),
                                     !.refreshToken = token,
                                     !.user = loc[p].user.id,
                                     !.removed = loc[p].removed,
                                     !.sent = TRUE]
             /\ consumed' = IF req[p].op = "refresh" THEN consumed \cup {req[p].cookie}
                                                     ELSE consumed
    /\ Release(p)
    /\ UNCHANGED <<users, now, issued, started, loggedOut, origin>>

\* AuthService.findUserByAccessToken for the access token of a request
ResolveIdentity(p) ==
    /\ pc[p] = "idle"
    /\ \E token \in AccessTokens :
        LET found == FindUserByAccessToken(token)
        IN  out' = [NoOut EXCEPT !.kind = "resolve", !.ok = ~found.raised, !.access = token,
                                 !.user = found.user.id,
                                 !.status = IF found.raised THEN UnhandledError.status ELSE 0]
    /\ UNCHANGED <<users, sessions, nextId, now, issued, pc, req, loc, started,
                   consumed, loggedOut, origin>>

\* getCredentials, lines 106-115: behind the guard; answers with the user
\* attached to the request
GetCredentials(p) ==
    /\ pc[p] = "idle"
    /\ \E user \in users \cup {NoUser} :
        LET r == [NoReq EXCEPT !.op = "credentials"]
        IN  IF ~CanActivate(user)
            THEN out' = Failure("credentials", r, Forbidden)
            ELSE out' = [NoOut EXCEPT !.kind = "credentials", !.ok = TRUE, !.req = r,
                                      !.status = 200, !.user = user.id, !.sent = TRUE]
    /\ Arrive
    /\ UNCHANGED <<users, sessions, nextId, now, issued, pc, req, loc, consumed,
                   loggedOut, origin>>

\* logout, lines 117-130: the guard lets the request in when a user is
\* attached to it; the handler clears the cookies and deletes by token
Logout(p) ==
    /\ pc[p] = "idle"
    /\ \E cookie \in Cookies, user \in users \cup {NoUser} :
        LET authorized == CanActivate(user)
            r == [NoReq EXCEPT !.op = "logout", !.cookie = IF authorized THEN cookie ELSE NoCookie]
            gone == {s \in sessions : LogoutDeleteCriteria(s, cookie)}
        IN  IF ~authorized
            THEN /\ out' = Failure("logout", r, Forbidden)
                 /\ UNCHANGED <<sessions, loggedOut>>
            ELSE /\ sessions' = sessions \ gone
                 /\ loggedOut' = loggedOut \cup {s.token : s \in gone}
                 /\ out' = [NoOut EXCEPT !.kind = "logout", !.ok = TRUE, !.req = r,
                                         !.status = 204, !.user = user.id,
                                         !.cookies = "cleared",
                                         !.removed = {s.token : s \in gone}]
    /\ Arrive
    /\ UNCHANGED <<users, nextId, now, issued, pc, req, loc, consumed, origin>>

Step(p) ==
    \/ RegisterFindOne(p)
    \/ RegisterCreate(p)
    \/ LoginFindOne(p)
    \/ LoginDelete(p)
    \/ RefreshFindOne(p)
    \/ RefreshCheck(p)
    \/ RefreshRemoveSession(p)
    \/ GetJWTs(p)
    \/ Logout(p)

\* requests overlap freely
Next == Tick \/ \E p \in Procs : Step(p)

Spec == Init /\ [][Next]_vars

\* requests do not overlap: one slot serves them one after the other
NextSeq == Tick \/ Step("r1")

SeqSpec == Init /\ [][NextSeq]_vars

\* requests do not overlap, and v4() may return the token of a stored session
NextCollide == NextSeq \/ GetJWTsCollide("r1")

CollideSpec == Init /\ [][NextCollide]_vars

\* requests do not overlap; identities are resolved and credentials asked for
NextGuard == NextSeq \/ ResolveIdentity("r1") \/ GetCredentials("r1")

GuardSpec == Init /\ [][NextGuard]_vars

----------------------------------------------------------------------------
(* Properties *)

\* what the caller sees of a response
Visible(o) ==
    [status |-> o.status, message |-> o.message, cookies |-> o.cookies,
     accessToken |-> o.accessToken, refreshToken |-> o.refreshToken, sent |-> o.sent]

InvalidCredentials ==
    [status |-> 400, message |-> "Invalid credentials.", cookies |-> "none",
     accessToken |-> 0, refreshToken |-> 0, sent |-> TRUE]

InvalidRefreshToken ==
    [status |-> 400, message |-> "Invalid refresh token", cookies |-> "none",
     accessToken |-> 0, refreshToken |-> 0, sent |-> TRUE]

\* the sessions of user u and fingerprint f that have not expired
LiveFor(u, f) == {s \in sessions : s.user = u /\ s.fingerprint = f /\ now < s.expiresAt}

Issuing == {"register", "login", "refresh"}

\* C1: with requests served one after the other, the store never holds two
\* non-expired sessions of one (user, fingerprint), and a successful register,
\* login or refresh leaves exactly one for its user and fingerprint.
C1_OneLiveSessionPerPair ==
    /\ \A s \in sessions : Cardinality(LiveFor(s.user, s.fingerprint)) <= 1
    /\ (out.ok /\ out.kind \in Issuing) =>
          Cardinality(LiveFor(out.user, out.req.fingerprint)) = 1

\* a refresh has just replaced a session by a new one
C1_Witness ==
    /\ out.kind = "refresh" /\ out.ok
    /\ out.removed = {out.req.cookie}
    /\ \E s \in sessions : s.token = out.refreshToken

\* C2: of two refreshes presenting the same token, at most one succeeds: no
\* refresh succeeds with a token that a refresh has already redeemed.
C2_Claim ==
    [][~(out'.kind = "refresh" /\ out'.ok /\ out'.req.cookie \in consumed)]_vars

\* C3: with requests served one after the other, a successful refresh leaves
\* the matched session absent and a session with another token stored for the
\* same user and fingerprint, and every later refresh presenting the redeemed
\* token fails with the invalid-refresh-token error.
C3_RedeemedTokenIsConsumed ==
    [][/\ \A p \in Procs :
            (pc[p] = "jwts" /\ pc'[p] = "idle" /\ req[p].op = "refresh") =>
                LET old == loc[p].session
                IN  /\ \A s \in sessions' : s.id # old.id /\ s.token # old.token
                    /\ \E s \in sessions' :
                          /\ s.token = out'.refreshToken
                          /\ s.token # old.token
                          /\ s.user = old.user
                          /\ s.fingerprint = old.fingerprint
       /\ (out'.kind = "refresh" /\ out'.req.cookie \in consumed) =>
            (Visible(out') = InvalidRefreshToken /\ sessions' = sessions)
      ]_vars

\* a redeemed token has just been presented again, and refused
C3_Witness ==
    /\ out.kind = "refresh" /\ ~out.ok
    /\ out.req.cookie \in consumed

\* C4: two logins of one user and fingerprint never leave two live sessions
\* behind: the store holds at most one live session issued by a login per
\* (user, fingerprint).
C4_Claim ==
    \A s1, s2 \in sessions :
        ( /\ origin[s1.token] = "login" /\ origin[s2.token] = "login"
          /\ s1.user = s2.user /\ s1.fingerprint = s2.fingerprint
          /\ now < s1.expiresAt /\ now < s2.expiresAt )
        => s1 = s2

\* C5: a refresh presenting a stored token with another fingerprint than the
\* session's fails with the invalid-refresh-token error and leaves the store
\* as it was, and no refresh gets past the lookup with a fingerprint other
\* than its session's.
C5_WrongFingerprintRejected ==
    [][/\ ( /\ out'.kind = "refresh"
            /\ \E s \in sessions : /\ s.token = out'.req.cookie
                                   /\ s.fingerprint # out'.req.fingerprint )
          => (Visible(out') = InvalidRefreshToken /\ sessions' = sessions)
       /\ \A p \in Procs :
            (pc[p] = "idle" /\ pc'[p] = "refresh_check") =>
                /\ loc'[p].session.fingerprint = req'[p].fingerprint
                /\ loc'[p].session.token = req'[p].cookie
      ]_vars

\* a live session's token has just been refused for its fingerprint
C5_Witness ==
    /\ out.kind = "refresh" /\ ~out.ok
    /\ \E s \in sessions : /\ s.token = out.req.cookie
                           /\ s.fingerprint # out.req.fingerprint
                           /\ now < s.expiresAt

\* C6: a session issued at time t expires at t + RefreshTokenExpiresIn, and
\* the expiry check of a refresh lets the request through at every time
\* before the session's expiry and refuses it, with the
\* invalid-refresh-token error, at the expiry and at every later time.
C6_ExpiryBoundary ==
    [][\A p \in Procs :
        /\ (pc[p] = "jwts" /\ pc'[p] = "idle") =>
              \E s \in sessions' \ sessions :
                  /\ s.token = out'.refreshToken
                  /\ s.expiresAt = now + RefreshTokenExpiresIn
        /\ (pc[p] = "refresh_check" /\ pc'[p] # "refresh_check") =>
              IF now < loc[p].session.expiresAt
              THEN pc'[p] = "refresh_remove" /\ out' = NoOut
              ELSE pc'[p] = "idle" /\ Visible(out') = InvalidRefreshToken
        /\ (out'.kind = "refresh" /\ out'.ok) =>
              \E s \in sessions' : s.token = out'.refreshToken /\ now < s.expiresAt
      ]_vars

\* a refresh has just been refused exactly at its session's expiry
C6_Witness ==
    /\ out.kind = "refresh" /\ ~out.ok
    /\ \E s \in sessions : /\ s.token = out.req.cookie
                           /\ s.fingerprint = out.req.fingerprint
                           /\ s.expiresAt = now

\* C7: every failed login, whether no user has the login or the password is
\* wrong, gives the caller the same invalid-credentials response and leaves
\* the session store as it was.
C7_LoginFailuresAlike ==
    [][(out'.kind = "login" /\ ~out'.ok) =>
          (Visible(out') = InvalidCredentials /\ out'.user = 0 /\ sessions' = sessions)
      ]_vars

\* a login of an existing user has just failed on its password
C7_Witness ==
    /\ out.kind = "login" /\ ~out.ok
    /\ \E u \in users : u.login = out.req.login
    /\ sessions # {}

\* C8: with requests served one after the other, after a successful login of
\* a user with a fingerprint the only stored session of that user and
\* fingerprint is the one just issued, and no token the login removed is
\* stored with that fingerprint any more.
C8_LoginReplacesSession ==
    (out.kind = "login" /\ out.ok) =>
        /\ \A s \in sessions :
              (s.user = out.user /\ s.fingerprint = out.req.fingerprint)
                  => s.token = out.refreshToken
        /\ \E s \in sessions :
              /\ s.user = out.user /\ s.fingerprint = out.req.fingerprint
              /\ s.token = out.refreshToken
        /\ \A s \in sessions :
              ~(s.fingerprint = out.req.fingerprint /\ s.token \in out.removed)

\* the only user there is has just logged in again from the same device
C8_Witness ==
    /\ out.kind = "login" /\ out.ok
    /\ Cardinality(users) = 1
    /\ out.removed # {}

LoggedOut ==
    [status |-> 204, message |-> "", cookies |-> "cleared",
     accessToken |-> 0, refreshToken |-> 0, sent |-> FALSE]

\* C9: with requests served one after the other, a logout the guard lets in
\* raises no error and looks the same to the caller whether or not its token
\* matches a session; after it no session carries the token; a refresh
\* presenting a logged-out token fails with the invalid-refresh-token error;
\* and a further logout with that token changes nothing.
C9_LogoutIdempotent ==
    [][/\ (out'.kind = "logout" /\ out'.ok) =>
            /\ Visible(out') = LoggedOut
            /\ \A s \in sessions' : s.token # out'.req.cookie
       /\ (out'.kind = "logout" /\ out'.req.cookie \in loggedOut) =>
            sessions' = sessions
       /\ (out'.kind = "refresh" /\ out'.req.cookie \in loggedOut) =>
            (Visible(out') = InvalidRefreshToken /\ sessions' = sessions)
      ]_vars

\* a token that was logged out has just been logged out again
C9_Witness ==
    /\ out.kind = "logout" /\ out.ok
    /\ out.req.cookie \in loggedOut
    /\ out.removed = {}

C11_Claim ==
    (out.kind \in Issuing) => Visible(out) # [Visible(NoOut) EXCEPT !.status = 500,
                                               !.message = "Internal server error",
                                               !.sent = TRUE]

\* C12: no two stored sessions carry the same token, also when v4() returns
\* the token of a stored session.
C12_TokensUnique ==
    \A s1, s2 \in sessions : s1.token = s2.token => s1 = s2

\* a request has just drawn the token of a stored session
C12_Witness ==
    /\ out.kind \in Issuing /\ out.status = 500
    /\ sessions # {}

Conflict ==
    [status |-> 400, message |-> "User with this login has been already registered.",
     cookies |-> "none", accessToken |-> 0, refreshToken |-> 0, sent |-> TRUE]

\* C13: with requests served one after the other, a register with a login
\* that a user already has fails with the conflict error and changes neither
\* the users nor the sessions, and goes no further; a register with an unused
\* login adds exactly one user, with that login, and its success leaves
\* exactly one session of that user and fingerprint, one more than before.
C13_RegisterConflict ==
    [][/\ (out'.kind = "register" /\ ~out'.ok) =>
            /\ Visible(out') = Conflict
            /\ \E u \in users : u.login = out'.req.login
            /\ users' = users /\ sessions' = sessions
       /\ \A p \in Procs :
            /\ (pc[p] = "idle" /\ pc'[p] = "register_create") =>
                  /\ \A u \in users : u.login # req'[p].login
                  /\ users' = users /\ sessions' = sessions
            /\ (pc[p] = "register_create" /\ pc'[p] = "jwts") =>
                  /\ \E u \in users' \ users : u.login = req[p].login /\ users' = users \cup {u}
                  /\ sessions' = sessions
       /\ (out'.kind = "register" /\ out'.ok) =>
            /\ \E u \in users' : u.login = out'.req.login /\ u.id = out'.user
            /\ Cardinality({u \in users' : u.login = out'.req.login}) = 1
            /\ Cardinality({s \in sessions' :
                    s.user = out'.user /\ s.fingerprint = out'.req.fingerprint}) = 1
            /\ users' = users
            /\ Cardinality(sessions') = Cardinality(sessions) + 1
      ]_vars

\* a register has just been refused for a login that is taken
C13_Witness ==
    /\ out.kind = "register" /\ ~out.ok
    /\ \E u \in users : u.login = out.req.login
    /\ sessions # {}

\* C14: resolving an identity never raises; an access token whose
\* verification fails (expired, bad signature, malformed) resolves to no
\* user; a user is returned only for a token that verifies, and it is the
\* stored user with the userId of the token.
C14_ResolveIdentity ==
    out.kind = "resolve" =>
        /\ out.ok
        /\ out.access.state # "valid" => out.user = 0
        /\ out.user # 0 =>
              /\ out.access.state = "valid"
              /\ out.user = out.access.userId
              /\ \E u \in users : u.id = out.user
        /\ (out.access.state = "valid" /\ \E u \in users : u.id = out.access.userId)
              => out.user = out.access.userId

\* an expired token of a registered user has just resolved to no user
C14_Witness ==
    /\ out.kind = "resolve" /\ out.access.state = "expired" /\ out.user = 0
    /\ \E u \in users : u.id = out.access.userId

\* C15: a response of register, login or refresh never carries a refresh
\* token whose session is not stored: the session with that token, of the
\* response's user and fingerprint, is in the store when the response is
\* made; and a request whose create failed delivers no token and no cookie.
C15_StoredBeforeHandedOut ==
    (out.kind \in Issuing) =>
        /\ out.refreshToken # 0 =>
              \E s \in sessions : /\ s.token = out.refreshToken
                                  /\ s.user = out.user
                                  /\ s.fingerprint = out.req.fingerprint
        /\ out.ok => out.refreshToken # 0
        /\ ~out.ok => /\ out.refreshToken = 0
                      /\ out.accessToken = 0
                      /\ out.cookies = "none"

\* a refresh has just handed out the token of the session it stored
C15_Witness ==
    /\ out.kind = "refresh" /\ out.ok
    /\ \E s \in sessions : s.token = out.refreshToken /\ s.id = nextId - 1

\* C16 as claimed: the delete of a successful login removes only sessions of
\* the user who logs in; the sessions of another user, also those with the
\* same fingerprint, stay.
C16_Claim ==
    [][\A p \in Procs :
          (pc[p] = "login_delete" /\ pc'[p] = "jwts") =>
              \A s \in sessions \ sessions' : s.user = loc[p].user.id
      ]_vars

\* C17 as claimed: a refresh that fails has removed nothing, so the session
\* it was presented with is still stored; the presented session is removed
\* only by a refresh that stores its replacement.
C17_Claim ==
    /\ (out.kind = "refresh" /\ ~out.ok) => out.removed = {}
    /\ (out.kind = "refresh" /\ out.ok) =>
          /\ out.removed = {out.req.cookie}
          /\ \E s \in sessions : s.token = out.refreshToken

\* C18: with requests served one after the other, an admitted logout removes
\* exactly the sessions whose token is the one of the cookie, whoever the
\* user attached to the request is, and leaves every other session as it
\* was; without a cookie it removes nothing.
C18_LogoutRemovesByToken ==
    [][(out'.kind = "logout" /\ out'.ok) =>
          /\ sessions' = {s \in sessions : s.token # out'.req.cookie}
          /\ out'.removed = {s.token : s \in sessions} \cap {out'.req.cookie}
          /\ out'.req.cookie = NoCookie => sessions' = sessions
      ]_vars

\* the second user has just logged out with the first user's token (token 1
\* is the one the first registration issued), and the other session is left
C18_Witness ==
    /\ out.kind = "logout" /\ out.ok
    /\ out.user = 2 /\ out.removed = {1}
    /\ \E s \in sessions : s.user = 2

\* C19 as claimed: a logout that the guard has admitted is answered: when
\* its handler has cleared the cookies and deleted the session, a response
\* has been sent to the caller.
C19_Claim == (out.kind = "logout" /\ out.ok) => out.sent

Guarded == {"credentials", "logout"}

\* C20: the handlers of get credentials and logout run only for a request
\* that a stored user is attached to; a request with no user attached is
\* refused by the guard, and a logout so refused deletes no session and
\* clears no cookie.
C20_GuardedNeedIdentity ==
    [][(out'.kind \in Guarded) =>
          /\ out'.ok => \E u \in users : u.id = out'.user
          /\ out'.user = 0 =>
                /\ ~out'.ok
                /\ out'.status = 403
                /\ out'.sent
                /\ sessions' = sessions
                /\ out'.cookies = "none"
                /\ out'.removed = {}
      ]_vars

\* a logout with no user attached has just been refused, with sessions stored
C20_Witness ==
    /\ out.kind = "logout" /\ ~out.ok /\ out.status = 403
    /\ sessions # {}

====
